---- MODULE Spec2Model ----
(***************************************************************************)
(* A model of log4rs' file configuration support (src/file/mod.rs): the    *)
(* Deserializers registry, Config::parse, and the threshold filter         *)
(* (src/filter/threshold/mod.rs).                                          *)
(***************************************************************************)
EXTENDS Integers, Sequences, FiniteSets, TLC

VARIABLES
    reg,        \* the Deserializers registry: family -> (kind -> deserializer)
    log,        \* history: the insert calls made so far, oldest first
    out,        \* history: the last Deserializers::deserialize call and its result
    text,       \* the configuration text handed to Config::parse
    res,        \* the last Config::parse call and its result
    procs,      \* concurrent Config::parse calls, each at its own position
    filter,     \* a ThresholdFilter
    seen        \* history: the records the filter was asked about, with its responses

vars == <<reg, log, out, text, res, procs, filter, seen>>

(***************************************************************************)
(* Bounds of the model.                                                    *)
(***************************************************************************)
MaxInserts == 2
MaxFilters == 3
MaxRecords == 2

(***************************************************************************)
(* The universe of inputs.                                                 *)
(***************************************************************************)
\* The families (the `Trait` of a deserializer): Append, Filter, Encode.
Families == {"Append", "Filter", "Encode"}

\* Deserializable::name(): the family's name in error messages.
Name(F) ==
    CASE F = "Append" -> "appender"
      [] F = "Filter" -> "filter"
      [] F = "Encode" -> "encoder"

\* Kind strings. No central namespace: every family may use every string.
Kinds == {"console", "threshold"}

\* A serde_value::Value, as far as a deserializer looks at it: its shape, and
\* the kind of the encoder it asks for ("none": no encoder entry).
Shapes == {"map", "str"}
Values == [shape : Shapes, encoder : Kinds \cup {"none"}]

\* The values filters are configured with: they also carry a level.
FilterValues ==
    {[shape |-> "map", encoder |-> "none", level |-> "Warn"],
     [shape |-> "map", encoder |-> "none", level |-> "Info"],
     [shape |-> "str", encoder |-> "none", level |-> "Warn"]}

\* The configuration a composite factory hands down for its nested encoder.
EncoderValue(v) == [shape |-> v.shape, encoder |-> "none"]

\* The deserializers that are registered: implementations of the Deserialize
\* trait, each with the family it builds (Trait), the shape of its typed Config,
\* whether its deserialize accepts the configuration or returns Err, and whether
\* it resolves a nested encoder through the `deserializers` it is handed. Beside
\* the threshold filter's: an appender that nests an encoder, an appender and a
\* filter that reject their configuration, and an encoder.
CompositeAppenderDeserializer ==
    [trait |-> "Append", id |-> "composite_appender", shape |-> "map",
     builds |-> TRUE, nests |-> TRUE]
RejectingAppenderDeserializer ==
    [trait |-> "Append", id |-> "rejecting_appender", shape |-> "map",
     builds |-> FALSE, nests |-> FALSE]
ThresholdFilterDeserializer ==
    [trait |-> "Filter", id |-> "threshold_filter", shape |-> "map",
     builds |-> TRUE, nests |-> FALSE]
RejectingFilterDeserializer ==
    [trait |-> "Filter", id |-> "rejecting_filter", shape |-> "map",
     builds |-> FALSE, nests |-> FALSE]
LeafEncoderDeserializer ==
    [trait |-> "Encode", id |-> "leaf_encoder", shape |-> "map",
     builds |-> TRUE, nests |-> FALSE]

Deserialize ==
    {CompositeAppenderDeserializer, RejectingAppenderDeserializer,
     ThresholdFilterDeserializer, RejectingFilterDeserializer,
     LeafEncoderDeserializer}

(***************************************************************************)
(* The registry: Deserializers.                                            *)
(***************************************************************************)
EmptyMap == [x \in {} |-> x]

Put(m, k, v) == [x \in DOMAIN m \cup {k} |-> IF x = k THEN v ELSE m[x]]

\* Deserializers::new
New == EmptyMap

\* KeyAdaptor<T>: the key of family T's sub-table is the family itself.
KeyAdaptor(T) == T

\* Deserializers::insert
InsertSameTableForAll(registry, kind, deserializer) ==
    \* the sub-table is keyed by nothing: every family shares one table
    Put(registry, "Append",
        Put(IF "Append" \in DOMAIN registry THEN registry["Append"] ELSE EmptyMap,
            kind, deserializer))

InsertKeepFirst(registry, kind, deserializer) ==
    LET key == KeyAdaptor(deserializer.trait)
        table == IF key \in DOMAIN registry THEN registry[key] ELSE EmptyMap
    IN  Put(registry, key,
            IF kind \in DOMAIN table THEN table ELSE Put(table, kind, deserializer))

Insert(registry, kind, deserializer) ==
    LET key == KeyAdaptor(deserializer.trait)
        \* .entry::<KeyAdaptor<T::Trait>>().or_insert_with(|| HashMap::new())
        table == IF key \in DOMAIN registry THEN registry[key] ELSE EmptyMap
    IN  Put(registry, key, Put(table, kind, deserializer))

\* The message of the error for a kind with no deserializer:
\* format!("no {} deserializer for kind '{}' registered", T::name(), kind), where
\* the source quotes the kind with backticks (written BACKTICK here).
NoDeserializerMsg(T, kind) ==
    <<"no ", Name(T), " deserializer for kind ", "BACKTICK", kind, "BACKTICK",
      " registered">>

\* config.deserialize_into(): the value converts to the typed Config when it has
\* the Config's shape.
InvalidTypeMsg(d, value) == <<"invalid type: ", value.shape, ", expected ", d.shape>>

BuildFailedMsg(d) == <<d.id, " rejected its configuration">>

\* A deserialize result. History kept with it, each in call order: `selected`,
\* the entries found whose erased deserialize was called (line 308); `invoked`,
\* the registered deserializers whose own deserialize ran (line 148), which it
\* does not when the conversion of line 147 fails; and `lookups`, the (family,
\* kind) pairs looked up in the registry.
Ok(val, selected, invoked, lookups) ==
    [ok |-> TRUE, val |-> val, selected |-> selected, invoked |-> invoked,
     lookups |-> lookups]
Err(msg, selected, invoked, lookups) ==
    [ok |-> FALSE, err |-> msg, selected |-> selected, invoked |-> invoked,
     lookups |-> lookups]

\* self.0.get::<KeyAdaptor<T>>().and_then(|m| m.get(kind)): the Option of the
\* entry found, as a set with at most one element.
LookupAnyFamily(registry, T, kind) ==
    \* the family is ignored when its own sub-table has no entry
    IF KeyAdaptor(T) \in DOMAIN registry /\ kind \in DOMAIN registry[KeyAdaptor(T)]
    THEN {registry[KeyAdaptor(T)][kind]}
    ELSE LET others == {F \in DOMAIN registry : kind \in DOMAIN registry[F]}
         IN  IF others = {} THEN {}
             ELSE {registry[CHOOSE F \in others : TRUE][kind]}

Lookup(registry, T, kind) ==
    IF KeyAdaptor(T) \in DOMAIN registry /\ kind \in DOMAIN registry[KeyAdaptor(T)]
    THEN {registry[KeyAdaptor(T)][kind]}
    ELSE {}

\* Deserializers::deserialize, with DeserializeEraser::deserialize and the
\* registered deserializer's own deserialize.
RECURSIVE DeserializeIn(_, _, _, _)
DeserializeIn(registry, T, kind, config) ==
    IF Lookup(registry, T, kind) # {}
    THEN LET b == CHOOSE d \in Lookup(registry, T, kind) : TRUE
         IN  IF config.shape # b.shape
             \* try!(config.deserialize_into()) returns before self.0.deserialize
             THEN Err(InvalidTypeMsg(b, config), <<b>>, <<>>, <<<<T, kind>>>>)
             ELSE IF ~b.builds
             THEN Err(BuildFailedMsg(b), <<b>>, <<b>>, <<<<T, kind>>>>)
             ELSE IF b.nests /\ config.encoder # "none"
             THEN LET inner == DeserializeIn(registry, "Encode", config.encoder,
                                             EncoderValue(config))
                  IN  IF inner.ok
                      THEN Ok([trait |-> b.trait, by |-> b.id, config |-> config,
                               parts |-> <<inner.val>>],
                              <<b>> \o inner.selected,
                              <<b>> \o inner.invoked,
                              <<<<T, kind>>>> \o inner.lookups)
                      ELSE Err(inner.err, <<b>> \o inner.selected,
                               <<b>> \o inner.invoked,
                               <<<<T, kind>>>> \o inner.lookups)
             ELSE Ok([trait |-> b.trait, by |-> b.id, config |-> config,
                      parts |-> <<>>], <<b>>, <<b>>, <<<<T, kind>>>>)
    ELSE Err(NoDeserializerMsg(T, kind), <<>>, <<>>, <<<<T, kind>>>>)

\* What a deserialize call leaves of the registry: it takes &self and only reads.
RegistryAfterEntry(registry, T) ==
    IF KeyAdaptor(T) \in DOMAIN registry THEN registry
    ELSE Put(registry, KeyAdaptor(T), EmptyMap)

RegistryAfterDeserialize(registry, T) == registry

\* The registry after the lookups of a deserialize call, nested ones included.
RECURSIVE RegistryAfter(_, _)
RegistryAfter(registry, lookups) ==
    IF lookups = <<>> THEN registry
    ELSE RegistryAfter(RegistryAfterDeserialize(registry, Head(lookups)[1]),
                       Tail(lookups))

\* The registry a sequence of insert calls builds, starting from new().
RECURSIVE RegistryOf(_)
RegistryOf(inserts) ==
    IF inserts = <<>> THEN New
    ELSE LET n == Len(inserts)
         IN  Insert(RegistryOf(SubSeq(inserts, 1, n - 1)),
                    inserts[n].kind, inserts[n].deserializer)

(***************************************************************************)
(* The raw configuration tree (raw::Config) and the configuration text.    *)
(***************************************************************************)
LogLevelFilters == {"Off", "Error", "Warn", "Info", "Debug", "Trace"}

LogLevels == {"Error", "Warn", "Info", "Debug", "Trace"}

\* Placeholders: no call made yet, no text.
NoCall == [called |-> FALSE]
NoText == [syntax_ok |-> FALSE]

AppenderNames == {"a", "b"}
LoggerNames == {"foo", "foo::", "::foo"}

\* FilterConfig { kind, config }
FilterConfigs == [kind : Kinds, config : FilterValues]

\* The sequences over S of length at most n.
SeqsUpTo(S, n) == UNION {[1..m -> S] : m \in 0..n}

\* The functions from a subset of D to S.
PartialMaps(D, S) == UNION {[N -> S] : N \in SUBSET D}

\* raw::Root, None when there is no "root" entry
NoRoot == [present |-> FALSE]
RawRoots ==
    {NoRoot,
     [present |-> TRUE, level |-> "Info", appenders |-> <<"a">>],
     [present |-> TRUE, level |-> "Off", appenders |-> <<>>]}

\* raw::Logger; additive is an Option<bool>
RawLoggers ==
    [level : {"Warn"}, appenders : {<<>>, <<"b">>}, additive : {"none", "true", "false"}]

RawTree(refresh_rate, root, appenders, loggers) ==
    [refresh_rate |-> refresh_rate, root |-> root, appenders |-> appenders,
     loggers |-> loggers]

PlainMap == [shape |-> "map", encoder |-> "none"]

\* The trees whose two appenders carry at most one filter each.
WideTrees ==
    {RawTree("none", NoRoot, appenders, EmptyMap) :
        appenders \in PartialMaps(AppenderNames,
            [kind : Kinds,
             config : {v \in Values : v.shape = "map" \/ v.encoder = "none"},
             filters : SeqsUpTo(FilterConfigs, 1)])}

\* The trees whose appender "a" carries up to MaxFilters filters, beside an
\* appender "b" of either kind and a logger with an invalid name.
DeepTrees ==
    {RawTree("none", NoRoot, a @@ b, loggers) :
        a \in [{"a"} -> [kind : Kinds, config : {PlainMap},
                        filters : SeqsUpTo(FilterConfigs, MaxFilters)]],
        b \in PartialMaps({"b"}, [kind : Kinds, config : {PlainMap}, filters : {<<>>}]),
        loggers \in PartialMaps({"foo::"},
            [level : {"Warn"}, appenders : {<<"b">>}, additive : {"none"}])}

\* The trees that vary the refresh rate, the root and the loggers.
LoggerTrees ==
    {RawTree(refresh_rate, root, appenders, loggers) :
        refresh_rate \in {"none", "30 seconds"},
        root \in RawRoots,
        appenders \in PartialMaps({"a"},
            [kind : {"console"}, config : {PlainMap}, filters : {<<>>}]),
        loggers \in PartialMaps(LoggerNames, RawLoggers)}

\* The trees whose two appenders carry at most one filter each, beside loggers
\* of valid and invalid names.
MixedTrees ==
    {RawTree("none", NoRoot, appenders, loggers) :
        appenders \in [AppenderNames ->
            [kind : Kinds, config : {PlainMap}, filters : SeqsUpTo(FilterConfigs, 1)]],
        loggers \in PartialMaps(LoggerNames,
            [level : {"Warn"}, appenders : {<<"a">>}, additive : {"none"}])}

\* The document of test::full_deserialize. The encoder of baz names no kind,
\* which defaults to "pattern".
FullDeserializeTree ==
    RawTree("60 seconds",
        [present |-> TRUE, level |-> "Info", appenders |-> <<"console">>],
        [n \in {"console", "baz"} |->
            IF n = "console"
            THEN [kind |-> "console", config |-> PlainMap,
                  filters |-> <<[kind |-> "threshold",
                                 config |-> [shape |-> "map", encoder |-> "none",
                                             level |-> "Debug"]]>>]
            ELSE [kind |-> "file", config |-> [shape |-> "map", encoder |-> "pattern"],
                  filters |-> <<>>]],
        [n \in {"foo::bar::baz"} |->
            [level |-> "Warn", appenders |-> <<"baz">>, additive |-> "false"]])

\* The empty document, {}.
EmptyTree == RawTree("none", NoRoot, EmptyMap, EmptyMap)

\* A configuration text: whether the format's parser accepts it, and the raw
\* tree it then yields.
Texts ==
    {NoText} \cup {[syntax_ok |-> TRUE, tree |-> t] :
                      t \in WideTrees \cup DeepTrees \cup LoggerTrees \cup MixedTrees
                            \cup {FullDeserializeTree}}

\* parse(format, config): the format's parser, failing on a text it rejects
ParseText(t) ==
    IF t.syntax_ok THEN [ok |-> TRUE, config |-> t.tree]
    ELSE [ok |-> FALSE, err |-> <<"syntax error">>]

\* The orders in which a map with keys S can be iterated.
Orders(S) ==
    {o \in [1..Cardinality(S) -> S] : \A i, j \in DOMAIN o : o[i] = o[j] => i = j}

(***************************************************************************)
(* The config builder (config::Config::builder, config::Root, ...).        *)
(***************************************************************************)
\* config::Root::builder().appenders(..).build(level)
Root(level, appenders) == [level |-> level, appenders |-> appenders]

\* config::Logger::builder().appenders(..).additive(..).build(name, level);
\* additive defaults to true
Logger(name, raw) ==
    [name |-> name, level |-> raw.level, appenders |-> raw.appenders,
     additive |-> IF raw.additive = "none" THEN TRUE ELSE raw.additive = "true"]

\* Builder-level rule on logger names: no empty path segment.
ValidLoggerName(name) == name \notin {"foo::", "::foo"}

ConfigError(kind, name) ==
    [type |-> "Config", err |-> <<kind, name>>, origin |-> <<name, 0>>]

\* Builder::build_lossy(root): keeps the first appender and the first logger of
\* each name and the loggers with valid names, and reports the others.
BuildLossy(root, appenders, loggers) ==
    LET dupA(i) == \E j \in 1..(i - 1) : appenders[j].name = appenders[i].name
        dupL(i) == \E j \in 1..(i - 1) : loggers[j].name = loggers[i].name
        okA == {i \in DOMAIN appenders : ~dupA(i)}
        okL == {i \in DOMAIN loggers : ~dupL(i) /\ ValidLoggerName(loggers[i].name)}
        RECURSIVE Keep(_, _, _)
        Keep(seq, ok, i) ==
            IF i > Len(seq) THEN <<>>
            ELSE (IF i \in ok THEN <<seq[i]>> ELSE <<>>) \o Keep(seq, ok, i + 1)
        RECURSIVE ErrsA(_)
        ErrsA(i) ==
            IF i > Len(appenders) THEN <<>>
            ELSE (IF dupA(i)
                  THEN <<ConfigError("duplicate appender name", appenders[i].name)>>
                  ELSE <<>>) \o ErrsA(i + 1)
        RECURSIVE ErrsL(_)
        ErrsL(i) ==
            IF i > Len(loggers) THEN <<>>
            ELSE (IF dupL(i)
                  THEN <<ConfigError("duplicate logger name", loggers[i].name)>>
                  ELSE IF ~ValidLoggerName(loggers[i].name)
                  THEN <<ConfigError("invalid logger name", loggers[i].name)>>
                  ELSE <<>>) \o ErrsL(i + 1)
    IN  [config |-> [root |-> root, appenders |-> Keep(appenders, okA, 1),
                     loggers |-> Keep(loggers, okL, 1)],
         errors |-> ErrsA(1) \o ErrsL(1)]

(***************************************************************************)
(* Config::parse, as the steps of one call.                                *)
(***************************************************************************)
\* Error::Deserialization(err). `origin` is history: the appender, and the
\* position among its filters (0: the appender itself), the error is about.
DeserializationError(err, name, idx) ==
    [type |-> "Deserialization", err |-> err, origin |-> <<name, idx>>]

NoCur == [name |-> "none"]
NoResult == [returned |-> FALSE]

\* A call Config::parse(config, format, deserializers), before its first step.
\* aorder and lorder are the orders in which this call's iterations over the
\* raw appenders and loggers maps will yield their entries. History kept with
\* it: `lookups`, the registry lookups made so far.
Call(t, aorder, lorder) ==
    [pc |-> "parse", text |-> t, aorder |-> aorder, lorder |-> lorder,
     errors |-> <<>>, root |-> NoRoot, appenders |-> <<>>, loggers |-> <<>>,
     pending |-> <<>>, cur |-> NoCur, lookups |-> <<>>, result |-> NoResult]

\* The root handed to the builder (lines 397-404).
DefaultRootTrace(raw_root) ==
    IF raw_root.present THEN Root(raw_root.level, raw_root.appenders)
    ELSE Root("Trace", <<"a">>)

BuildRoot(raw_root) ==
    IF raw_root.present THEN Root(raw_root.level, raw_root.appenders)
    ELSE Root("Debug", <<>>)

\* let config = try!(parse(format, config)), and the root (lines 389-404)
StepParse(s) ==
    LET r == ParseText(s.text)
    IN  IF ~r.ok
        THEN [s EXCEPT !.pc = "done",
                       !.result = [returned |-> TRUE, ok |-> FALSE, err |-> r.err]]
        ELSE [s EXCEPT !.pc = "appenders",
                       !.root = BuildRoot(r.config.root),
                       !.pending = s.aorder]

\* Err(err) => errors.push(Error::Deserialization(err)) for an appender (line 420)
AppenderErrBreaks(s, name, err) ==
    \* the loop over the appenders ends at the first failure
    [s EXCEPT !.errors = Append(@, DeserializationError(err, name, 0)),
              !.pending = <<>>]

AppenderErrPropagates(s, name, err) ==
    \* try!: the failure ends the call
    [s EXCEPT !.pc = "done",
              !.result = [returned |-> TRUE, ok |-> FALSE, err |-> err]]

OnAppenderErr(s, name, err) ==
    [s EXCEPT !.errors = Append(@, DeserializationError(err, name, 0)),
              !.pending = Tail(@)]

\* the appender's turn in the loop over raw_appenders (lines 408-411, 420)
StepAppender(s, registry) ==
    IF s.pending = <<>> THEN [s EXCEPT !.pc = "loggers"]
    ELSE LET name == Head(s.pending)
             raw == s.text.tree.appenders[name]
             r == DeserializeIn(registry, "Append", raw.kind, raw.config)
             t == [s EXCEPT !.lookups = @ \o r.lookups]
         IN  IF r.ok
             THEN [t EXCEPT !.pc = "filters",
                            !.cur = [name |-> name, appender |-> r.val,
                                     filters |-> <<>>, todo |-> raw.filters, idx |-> 1]]
             ELSE OnAppenderErr(t, name, r.err)

\* Err(err) => errors.push(Error::Deserialization(err)) for a filter (line 415)
FilterErrBreaks(s, err) ==
    \* the loop over the filters ends at the first failure
    [s EXCEPT !.errors = Append(@, DeserializationError(err, s.cur.name, s.cur.idx)),
              !.cur.todo = <<>>]

OnFilterErr(s, err) ==
    [s EXCEPT !.errors = Append(@, DeserializationError(err, s.cur.name, s.cur.idx)),
              !.cur.todo = Tail(@),
              !.cur.idx = @ + 1]

\* config = config.appender(builder.build(name.clone(), appender_obj)) (line 418)
AddAppenderToFreshBuilder(s) ==
    \* the builder is started over for each appender
    [s EXCEPT !.appenders = <<[name |-> s.cur.name, appender |-> s.cur.appender,
                               filters |-> s.cur.filters]>>,
              !.pending = Tail(@),
              !.cur = NoCur,
              !.pc = "appenders"]

AddAppender(s) ==
    [s EXCEPT !.appenders = Append(@, [name |-> s.cur.name, appender |-> s.cur.appender,
                                       filters |-> s.cur.filters]),
              !.pending = Tail(@),
              !.cur = NoCur,
              !.pc = "appenders"]

\* a filter's turn in the loop over the appender's filters (lines 412-418)
StepFilter(s, registry) ==
    IF s.cur.todo = <<>> THEN AddAppender(s)
    ELSE LET f == Head(s.cur.todo)
             r == DeserializeIn(registry, "Filter", f.kind, f.config)
             t == [s EXCEPT !.lookups = @ \o r.lookups]
         IN  IF r.ok
             THEN [t EXCEPT !.cur.filters = Append(@, r.val),
                            !.cur.todo = Tail(@),
                            !.cur.idx = @ + 1]
             ELSE OnFilterErr(t, r.err)

\* the loop over raw_loggers (lines 424-431)
StepLoggers(s) ==
    [s EXCEPT !.loggers = [i \in DOMAIN s.lorder |->
                              Logger(s.lorder[i], s.text.tree.loggers[s.lorder[i]])],
              !.pc = "build"]

\* build_lossy, the Config errors, and Ok(config) (lines 433-446)
StepBuildDropsConfigErrors(s) ==
    \* what build_lossy reports is not pushed
    LET b == BuildLossy(s.root, s.appenders, s.loggers)
    IN  [s EXCEPT !.pc = "done",
                  !.result = [returned |-> TRUE, ok |-> TRUE,
                              refresh_rate |-> s.text.tree.refresh_rate,
                              config |-> b.config, errors |-> s.errors]]

StepBuild(s) ==
    LET b == BuildLossy(s.root, s.appenders, s.loggers)
        errors == s.errors \o b.errors
    IN  [s EXCEPT !.errors = errors,
                  !.pc = "done",
                  !.result = [returned |-> TRUE, ok |-> TRUE,
                              refresh_rate |-> s.text.tree.refresh_rate,
                              config |-> b.config, errors |-> errors]]

ParseStep(s, registry) ==
    CASE s.pc = "parse" -> StepParse(s)
      [] s.pc = "appenders" -> StepAppender(s, registry)
      [] s.pc = "filters" -> StepFilter(s, registry)
      [] s.pc = "loggers" -> StepLoggers(s)
      [] s.pc = "build" -> StepBuild(s)

\* Config::parse from call to return.
RECURSIVE Run(_, _)
Run(s, registry) ==
    IF s.pc = "done" THEN s ELSE Run(ParseStep(s, registry), registry)

Parse(t, registry, aorder, lorder) == Run(Call(t, aorder, lorder), registry)

\* The orders a call on text t can meet.
AppenderOrders(t) == IF t.syntax_ok THEN Orders(DOMAIN t.tree.appenders) ELSE {<<>>}
LoggerOrders(t) == IF t.syntax_ok THEN Orders(DOMAIN t.tree.loggers) ELSE {<<>>}

(***************************************************************************)
(* The threshold filter.                                                   *)
(***************************************************************************)
\* LogLevel and LogLevelFilter as the numbers the log crate compares them by.
LevelOrd(level) ==
    CASE level = "Off" -> 0
      [] level = "Error" -> 1
      [] level = "Warn" -> 2
      [] level = "Info" -> 3
      [] level = "Debug" -> 4
      [] level = "Trace" -> 5

\* ThresholdFilter::new
ThresholdFilter(level) == [level |-> level]

\* ThresholdFilterDeserializer::deserialize
DeserializeThresholdFilter(config) == ThresholdFilter(config.level)

NoFilter == ThresholdFilter("Off")

\* <ThresholdFilter as Filter>::filter
FilterRejectsAtThreshold(self, record) ==
    IF LevelOrd(record.level) >= LevelOrd(self.level) THEN "Reject" ELSE "Neutral"

Filter(self, record) ==
    IF LevelOrd(record.level) > LevelOrd(self.level) THEN "Reject" ELSE "Neutral"

(***************************************************************************)
(* The registry as a state machine: inserts and deserialize calls.         *)
(***************************************************************************)
InitRegistry ==
    /\ reg = New
    /\ log = <<>>
    /\ out = NoCall
    /\ text = NoText
    /\ res = NoCall
    /\ procs = EmptyMap
    /\ filter = NoFilter
    /\ seen = <<>>

\* d.insert(kind, deserializer). `out` describes the registry as it is, so an
\* insert forgets it.
InsertCall(kind, d) ==
    /\ Len(log) < MaxInserts
    /\ reg' = Insert(reg, kind, d)
    /\ log' = Append(log, [kind |-> kind, deserializer |-> d])
    /\ out' = NoCall
    /\ UNCHANGED <<text, res, procs, filter, seen>>

\* deserializers.deserialize::<T>(kind, config)
DeserializeCall(T, kind, config) ==
    /\ out' = [called |-> TRUE, family |-> T, kind |-> kind, config |-> config,
               result |-> DeserializeIn(reg, T, kind, config)]
    /\ reg' = RegistryAfter(reg, DeserializeIn(reg, T, kind, config).lookups)
    /\ UNCHANGED <<log, text, res, procs, filter, seen>>

NextRegistry ==
    \/ \E kind \in Kinds, d \in Deserialize : InsertCall(kind, d)
    \/ \E T \in Families, kind \in Kinds, config \in Values :
          DeserializeCall(T, kind, config)

SpecRegistry == InitRegistry /\ [][NextRegistry]_vars

(***************************************************************************)
(* Config::parse as one call on a registry built by inserts.               *)
(***************************************************************************)
Ins(kind, d) == [kind |-> kind, deserializer |-> d]

\* Default for Deserializers, built with the features console_appender,
\* file_appender, pattern_encoder and threshold_filter: the inserts it makes for
\* the families of the model, in its order. The console and the file appender
\* resolve their encoder by kind through the registry.
DefaultInserts ==
    <<Ins("console", CompositeAppenderDeserializer),
      Ins("file", CompositeAppenderDeserializer),
      Ins("pattern", LeafEncoderDeserializer),
      Ins("threshold", ThresholdFilterDeserializer)>>

\* Inserts a program makes on top of the default ones: an encoder under the
\* string "console", and an appender and a filter that reject their
\* configuration.
EncoderInserts == <<Ins("console", LeafEncoderDeserializer)>>
RejectingInserts ==
    <<Ins("threshold", RejectingAppenderDeserializer),
      Ins("console", RejectingFilterDeserializer)>>

\* The insert sequences that build the registries parse is run on.
ParseInserts ==
    {<<>>,
     DefaultInserts,
     DefaultInserts \o EncoderInserts,
     DefaultInserts \o EncoderInserts \o RejectingInserts}

InitParse ==
    /\ log \in ParseInserts
    /\ reg = RegistryOf(log)
    /\ out = NoCall
    /\ text \in Texts
    /\ res = NoCall
    /\ procs = EmptyMap
    /\ filter = NoFilter
    /\ seen = <<>>

\* Config::parse(text, format, &reg), the map iterations in the orders given
ParseCall(aorder, lorder) ==
    /\ res = NoCall
    /\ res' = [called |-> TRUE, final |-> Parse(text, reg, aorder, lorder)]
    /\ UNCHANGED <<reg, log, out, text, procs, filter, seen>>

NextParse ==
    \E aorder \in AppenderOrders(text), lorder \in LoggerOrders(text) :
        ParseCall(aorder, lorder)

SpecParse == InitParse /\ [][NextParse]_vars

(***************************************************************************)
(* Concurrent calls of Config::parse on one shared registry.               *)
(***************************************************************************)
Procs == {"p", "q"}

Appender(kind, config, filters) == [kind |-> kind, config |-> config, filters |-> filters]

\* The texts the concurrent calls are given: one the parser rejects; one with
\* two appenders, a nested encoder, two filters and a logger; one whose nested
\* encoder is of an unregistered kind.
ConcurrentTexts ==
    {NoText,
     [syntax_ok |-> TRUE,
      tree |-> RawTree("none", NoRoot,
          [n \in AppenderNames |->
              IF n = "a"
              THEN Appender("console", [shape |-> "map", encoder |-> "console"],
                            <<[kind |-> "threshold",
                               config |-> [shape |-> "map", encoder |-> "none",
                                           level |-> "Warn"]],
                              [kind |-> "console",
                               config |-> [shape |-> "map", encoder |-> "none",
                                           level |-> "Info"]]>>)
              ELSE Appender("threshold", PlainMap, <<>>)],
          [n \in {"foo::"} |->
              [level |-> "Warn", appenders |-> <<"b">>, additive |-> "none"]])],
     [syntax_ok |-> TRUE,
      tree |-> RawTree("none", NoRoot,
          [n \in {"a"} |->
              Appender("console", [shape |-> "map", encoder |-> "threshold"], <<>>)],
          EmptyMap)]}

Calls ==
    {Call(t, aorder, lorder) :
        t \in ConcurrentTexts, aorder \in Orders(AppenderNames) \cup {<<"a">>, <<>>},
        lorder \in {<<"foo::">>, <<>>}}

\* The registries the calls share: the default one built without its encoder
\* feature, so with no sub-table for encoders, and the fullest of ParseInserts.
ConcurrentInserts ==
    {SelectSeq(DefaultInserts, LAMBDA i : i.deserializer.trait # "Encode"),
     DefaultInserts \o EncoderInserts \o RejectingInserts}

InitConcurrent ==
    /\ log \in ConcurrentInserts
    /\ reg = RegistryOf(log)
    /\ out = NoCall
    /\ text = NoText
    /\ res = NoCall
    /\ procs \in [Procs -> {c \in Calls : /\ c.aorder \in AppenderOrders(c.text)
                                          /\ c.lorder \in LoggerOrders(c.text)}]
    /\ filter = NoFilter
    /\ seen = <<>>

\* One step of call p. Its lookups read the registry the calls share.
Step(p) ==
    /\ procs[p].pc # "done"
    /\ LET next == ParseStep(procs[p], reg)
           made == SubSeq(next.lookups, Len(procs[p].lookups) + 1, Len(next.lookups))
       IN  /\ procs' = [procs EXCEPT ![p] = next]
           /\ reg' = RegistryAfter(reg, made)
    /\ UNCHANGED <<log, out, text, res, filter, seen>>

NextConcurrent == \E p \in Procs : Step(p)

SpecConcurrent == InitConcurrent /\ [][NextConcurrent]_vars

(***************************************************************************)
(* A threshold filter and the records it is asked about.                   *)
(***************************************************************************)
InitThreshold ==
    /\ reg = New
    /\ log = <<>>
    /\ out = NoCall
    /\ text = NoText
    /\ res = NoCall
    /\ procs = EmptyMap
    /\ filter = NoFilter
    /\ seen = <<>>

\* A filter built by the deserializer from its configuration.
NewThresholdFilter(level) ==
    /\ filter' = DeserializeThresholdFilter(
                      [shape |-> "map", encoder |-> "none", level |-> level])
    /\ seen' = <<>>
    /\ UNCHANGED <<reg, log, out, text, res, procs>>

\* filter.filter(&record)
FilterRecord(level) ==
    /\ Len(seen) < MaxRecords
    /\ seen' = Append(seen, [threshold |-> filter.level, level |-> level,
                              response |-> Filter(filter, [level |-> level])])
    /\ UNCHANGED <<reg, log, out, text, res, procs, filter>>

NextThreshold ==
    \/ \E level \in LogLevelFilters : NewThresholdFilter(level)
    \/ \E level \in LogLevels : FilterRecord(level)

SpecThreshold == InitThreshold /\ [][NextThreshold]_vars

(***************************************************************************)
(* Properties of the registry.                                             *)
(***************************************************************************)
Range(seq) == {seq[i] : i \in DOMAIN seq}

Max(S) == CHOOSE x \in S : \A y \in S : y <= x

\* The positions in the history of the inserts of kind `kind` for family T.
InsertsFor(T, kind) ==
    {i \in DOMAIN log : log[i].kind = kind /\ log[i].deserializer.trait = T}

\* C4. Last write wins: a deserialize call for a (family, kind) that was
\* inserted invokes first the deserializer of the most recent such insert, and
\* invokes no deserializer that an insert for this (family, kind) replaced.
C4_LastInsertWins ==
    (out.called /\ InsertsFor(out.family, out.kind) # {}) =>
        LET last == log[Max(InsertsFor(out.family, out.kind))].deserializer
        IN  /\ out.result.selected # <<>>
            /\ out.result.selected[1] = last
            /\ out.config.shape = last.shape =>
                  (out.result.invoked # <<>> /\ out.result.invoked[1] = last)
            /\ \A i \in InsertsFor(out.family, out.kind) :
                  log[i].deserializer # last =>
                      /\ log[i].deserializer \notin Range(out.result.selected)
                      /\ log[i].deserializer \notin Range(out.result.invoked)

\* a deserialize call for a (family, kind) registered twice, with different
\* deserializers
C4_Witness ==
    /\ out.called
    /\ \E i, j \in InsertsFor(out.family, out.kind) :
          i < j /\ log[i].deserializer # log[j].deserializer

\* C5. deserialize(F, k, value) fails with "no <name of F> deserializer for kind
\* `k` registered" exactly when no insert of kind k for family F has happened,
\* and then no registered deserializer is invoked.
C5_UnregisteredKindFails ==
    out.called =>
        /\ (~out.result.ok /\ out.result.err = NoDeserializerMsg(out.family, out.kind))
              <=> (InsertsFor(out.family, out.kind) = {})
        /\ (InsertsFor(out.family, out.kind) = {}) =>
              (out.result.selected = <<>> /\ out.result.invoked = <<>>)

\* a failed deserialize call for a family with no sub-table, on a registry that
\* holds the same kind for another family
C5_Witness ==
    /\ out.called
    /\ ~out.result.ok
    /\ KeyAdaptor(out.family) \notin DOMAIN reg
    /\ \E i \in DOMAIN log : log[i].kind = out.kind

\* The (family, kind) of the insert a step makes.
Inserted(l) == <<l[Len(l)].deserializer.trait, l[Len(l)].kind>>

\* C6 as stated. An insert for (F, k) leaves the outcome of deserialize unchanged
\* for every other (family, kind) and every value.
C6_OutcomeFrame ==
    [][log' # log =>
          \A G \in Families, k \in Kinds, v \in Values :
              <<G, k>> # Inserted(log') =>
                  DeserializeIn(reg', G, k, v) = DeserializeIn(reg, G, k, v)]_vars

\* C6, amended. An insert for (F, k) changes only the (F, k) entry: every other
\* (family, kind) has the same entry, or none, before and after, and deserialize
\* has the same outcome for it unless its build looked (F, k) up itself.
C6_EntryFrame ==
    [][log' # log =>
          \A G \in Families, k \in Kinds :
              <<G, k>> # Inserted(log') =>
                  /\ Lookup(reg', G, k) = Lookup(reg, G, k)
                  /\ \A v \in Values :
                        \/ Inserted(log') \in Range(DeserializeIn(reg, G, k, v).lookups)
                        \/ DeserializeIn(reg', G, k, v) = DeserializeIn(reg, G, k, v)]_vars

\* after an insert of kind k for F on a registry that held other entries,
\* deserialize of the same string k for another family finds nothing
C6_Witness ==
    /\ Len(log) >= 2
    /\ out.called
    /\ out.kind = Inserted(log)[2]
    /\ out.family # Inserted(log)[1]
    /\ ~out.result.ok
    /\ out.result.err = NoDeserializerMsg(out.family, out.kind)

(***************************************************************************)
(* Properties of Config::parse.                                            *)
(***************************************************************************)
\* The appenders of the text's tree, and the call's outcome.
RawAppenders == text.tree.appenders
Final == res.final
Returned == res.called /\ res.final.result.ok

\* The entries of an error list that are about appender `name` or its filters.
ErrorsOf(errors, name) ==
    SelectSeq(errors, LAMBDA e : e.type = "Deserialization" /\ e.origin[1] = name)

\* The positions of the filters of appender `name` that fail to build.
FailingFilters(name) ==
    {i \in DOMAIN RawAppenders[name].filters :
        ~DeserializeIn(reg, "Filter", RawAppenders[name].filters[i].kind,
                       RawAppenders[name].filters[i].config).ok}

AppenderBuilds(name) ==
    DeserializeIn(reg, "Append", RawAppenders[name].kind, RawAppenders[name].config).ok

\* The appenders handed to the builder under `name`.
Assembled(s, name) == SelectSeq(s.appenders, LAMBDA a : a.name = name)

\* C1. For a text that parses and an appender in it whose kind was never
\* inserted for the appender family: parse returns Ok, the error list holds
\* exactly one Deserialization error for it, saying "no appender deserializer
\* for kind `<kind>` registered", no appender of that name is handed to the
\* builder, and every other appender is either handed to the builder or has
\* its own error.
C1_UnregisteredAppenderSkipped ==
    (res.called /\ text.syntax_ok) =>
        \A name \in DOMAIN RawAppenders :
            InsertsFor("Append", RawAppenders[name].kind) = {} =>
                /\ Final.result.ok
                /\ ErrorsOf(Final.result.errors, name) =
                      <<[type |-> "Deserialization",
                         err |-> <<"no ", "appender", " deserializer for kind ",
                                   "BACKTICK", RawAppenders[name].kind, "BACKTICK",
                                   " registered">>,
                         origin |-> <<name, 0>>]>>
                /\ Assembled(Final, name) = <<>>
                /\ \A other \in DOMAIN RawAppenders \ {name} :
                      \/ Len(Assembled(Final, other)) = 1
                      \/ \E i \in DOMAIN Final.result.errors :
                            Final.result.errors[i].origin = <<other, 0>>

\* a call that met an appender of unregistered kind first and then built
\* another appender, with a filter
C1_Witness ==
    /\ Returned
    /\ Len(Final.aorder) = 2
    /\ InsertsFor("Append", RawAppenders[Final.aorder[1]].kind) = {}
    /\ Len(Assembled(Final, Final.aorder[2])) = 1
    /\ Assembled(Final, Final.aorder[2])[1].filters # <<>>

\* The filters of appender `name` that build, built, in the order listed.
RECURSIVE BuiltFilters(_, _)
BuiltFilters(name, i) ==
    IF i > Len(RawAppenders[name].filters) THEN <<>>
    ELSE LET f == RawAppenders[name].filters[i]
             r == DeserializeIn(reg, "Filter", f.kind, f.config)
         IN  (IF r.ok THEN <<r.val>> ELSE <<>>) \o BuiltFilters(name, i + 1)

\* C2. For an appender that builds and has N filters of which exactly one, the
\* i-th, fails to build: the appender is handed to the builder with the N-1
\* other filters in their listed order, and the error list holds one
\* Deserialization error for filter i and none else for this appender.
C2_FailedFilterOmitted ==
    (res.called /\ text.syntax_ok) =>
        \A name \in DOMAIN RawAppenders :
            (AppenderBuilds(name) /\ Cardinality(FailingFilters(name)) = 1) =>
                LET i == CHOOSE j \in FailingFilters(name) : TRUE
                    f == RawAppenders[name].filters[i]
                IN  /\ Len(Assembled(Final, name)) = 1
                    /\ Len(Assembled(Final, name)[1].filters) =
                          Len(RawAppenders[name].filters) - 1
                    /\ Assembled(Final, name)[1].filters = BuiltFilters(name, 1)
                    /\ ErrorsOf(Final.result.errors, name) =
                          <<DeserializationError(
                                DeserializeIn(reg, "Filter", f.kind, f.config).err,
                                name, i)>>

\* an appender built with three filters listed, the second failing and the
\* first and third different
C2_Witness ==
    /\ Returned
    /\ "a" \in DOMAIN RawAppenders
    /\ Len(RawAppenders["a"].filters) = 3
    /\ AppenderBuilds("a")
    /\ FailingFilters("a") = {2}
    /\ Len(Assembled(Final, "a")) = 1
    /\ Len(Assembled(Final, "a")[1].filters) = 2
    /\ Assembled(Final, "a")[1].filters[1] # Assembled(Final, "a")[1].filters[2]

\* C3. parse returns Err exactly when parsing the text into the raw tree
\* fails; when it succeeds parse returns Ok, whatever fails to build and
\* whatever build_lossy reports.
C3_OnlyParseFailureIsFatal ==
    res.called =>
        /\ Final.result.returned
        /\ Final.result.ok <=> text.syntax_ok
        /\ ~text.syntax_ok =>
              (Final.result.err = ParseText(text).err /\ Final.lookups = <<>>)

\* an Ok return with a typed-config mismatch, two build failures and a
\* validation error in its error list
C3_Witness ==
    /\ Returned
    /\ \E i \in DOMAIN Final.result.errors :
          /\ Final.result.errors[i].type = "Deserialization"
          /\ Final.result.errors[i].err[1] = "invalid type: "
    /\ \E i \in DOMAIN Final.result.errors :
          /\ Final.result.errors[i].type = "Deserialization"
          /\ Final.result.errors[i].origin = <<"b", 0>>
          /\ Final.result.errors[i].err = BuildFailedMsg(RejectingAppenderDeserializer)
    /\ \E i \in DOMAIN Final.result.errors :
          /\ Final.result.errors[i].type = "Deserialization"
          /\ Final.result.errors[i].err = BuildFailedMsg(RejectingFilterDeserializer)
    /\ \E i \in DOMAIN Final.result.errors : Final.result.errors[i].type = "Config"

\* C7. For the empty document, with any registry: parse returns Ok with an
\* empty error list, the root handed to the builder has level Debug and no
\* appenders, no appender or logger is handed to the builder, and the registry
\* is not looked up.
C7_EmptyDocument ==
    (res.called /\ text.syntax_ok /\ text.tree = EmptyTree) =>
        /\ Final.result.ok
        /\ Final.result.errors = <<>>
        /\ Final.root = [level |-> "Debug", appenders |-> <<>>]
        /\ Final.result.config.root = [level |-> "Debug", appenders |-> <<>>]
        /\ Final.appenders = <<>>
        /\ Final.loggers = <<>>
        /\ Final.lookups = <<>>

\* a call on the empty document with a registry that has entries
C7_Witness ==
    /\ Returned
    /\ text.tree = EmptyTree
    /\ reg # New

\* A sequence as a multiset.
BagOf(seq) == [x \in Range(seq) |-> Cardinality({i \in DOMAIN seq : seq[i] = x})]

\* Two outcomes of parse with the same content: the same appenders, each with
\* its filter sequence, the same loggers and root, error lists equal as
\* multisets, and the errors of each appender in the same order.
SameUpToOrder(s, t) ==
    /\ s.result.ok = t.result.ok
    /\ s.result.ok =>
          /\ Range(s.appenders) = Range(t.appenders)
          /\ Len(s.appenders) = Len(t.appenders)
          /\ Range(s.loggers) = Range(t.loggers)
          /\ Len(s.loggers) = Len(t.loggers)
          /\ s.root = t.root
          /\ s.result.refresh_rate = t.result.refresh_rate
          /\ s.result.config.root = t.result.config.root
          /\ Range(s.result.config.appenders) = Range(t.result.config.appenders)
          /\ Range(s.result.config.loggers) = Range(t.result.config.loggers)
          /\ BagOf(s.result.errors) = BagOf(t.result.errors)
          /\ \A name \in DOMAIN s.text.tree.appenders :
                ErrorsOf(s.result.errors, name) = ErrorsOf(t.result.errors, name)
    /\ ~s.result.ok => s.result = t.result

\* The place of error e in an error list.
Pos(errors, e) == CHOOSE i \in DOMAIN errors : errors[i] = e

\* Two errors that belong to different appenders.
OfDifferentAppenders(e, f) ==
    /\ e.type = "Deserialization"
    /\ f.type = "Deserialization"
    /\ e.origin[1] # f.origin[1]

\* Two errors that build_lossy reports.
BothOfTheBuilder(e, f) == e.type = "Config" /\ f.type = "Config"

\* Every two errors of both outcomes come in the same relative order, but for
\* the pairs that Free lets go.
OrderKept(s, t, Free(_, _)) ==
    s.result.ok =>
        \A e, f \in Range(s.result.errors) \cap Range(t.result.errors) :
            ~Free(e, f) =>
                (Pos(s.result.errors, e) < Pos(s.result.errors, f)
                    <=> Pos(t.result.errors, e) < Pos(t.result.errors, f))

C9_RegistryFrozenCallsIndependent ==
    /\ reg = RegistryOf(log)
    /\ \A p \in Procs :
          /\ procs[p].pc # "done" => ENABLED Step(p)
          /\ Run(procs[p], reg) =
                Parse(procs[p].text, RegistryOf(log), procs[p].aorder, procs[p].lorder)

\* both calls in the middle of their filters, one after a nested lookup of an
\* encoder, the other with an error recorded
C9_Witness ==
    /\ procs["p"].pc = "filters"
    /\ procs["q"].pc = "filters"
    /\ \E i \in DOMAIN procs["p"].lookups : procs["p"].lookups[i][1] = "Encode"
    /\ procs["q"].errors # <<>>

\* The levels in the log crate's order, most severe first.
Severity == <<"Error", "Warn", "Info", "Debug", "Trace">>

\* The record levels less severe than a threshold: those after it in Severity,
\* and all of them for Off.
LessSevereThan(threshold) ==
    IF threshold = "Off" THEN LogLevels
    ELSE {Severity[i] : i \in {j \in DOMAIN Severity :
                                 \E k \in 1..(j - 1) : Severity[k] = threshold}}

\* C10. The filter rejects exactly the records less severe than its threshold
\* and is neutral on all others, a record at the threshold included; it never
\* accepts.
C10_ThresholdRejectsBelow ==
    \A i \in DOMAIN seen :
        /\ seen[i].response \in {"Reject", "Neutral"}
        /\ seen[i].response = "Reject" <=> seen[i].level \in LessSevereThan(seen[i].threshold)
        /\ seen[i].level = seen[i].threshold => seen[i].response = "Neutral"

\* a filter asked about a record at its threshold and about one below it
C10_Witness ==
    /\ Len(seen) = 2
    /\ seen[1].threshold = "Warn" /\ seen[1].level = "Warn"
    /\ seen[2].threshold = "Warn" /\ seen[2].level = "Info"
    /\ seen[2].response = "Reject"

(***************************************************************************)
(* The accounting of the error list.                                       *)
(***************************************************************************)
\* The components whose build fails where parse gets to them: an appender
\* (position 0), or a filter of an appender that builds.
FailedComponents ==
    {<<name, 0>> : name \in {n \in DOMAIN RawAppenders : ~AppenderBuilds(n)}}
    \cup UNION {{<<name, i>> : i \in FailingFilters(name)} :
                   name \in {n \in DOMAIN RawAppenders : AppenderBuilds(n)}}

\* The number of filters listed under the appenders that build.
RECURSIVE FiltersOfBuilt(_)
FiltersOfBuilt(names) ==
    IF names = {} THEN 0
    ELSE LET n == CHOOSE x \in names : TRUE
         IN  (IF AppenderBuilds(n) THEN Len(RawAppenders[n].filters) ELSE 0)
             + FiltersOfBuilt(names \ {n})

\* What build_lossy reports on what the call handed to the builder.
Reported == BuildLossy(Final.root, Final.appenders, Final.loggers).errors

\* C11. When parsing succeeds the returned error list holds exactly one
\* Deserialization entry for each appender that fails to build and for each
\* failing filter of an appender that builds, then one Config entry for each
\* error build_lossy reports, and nothing else; the filters of an appender that
\* fails are never looked up; and the list is empty exactly when every
\* appender and every filter builds and build_lossy reports nothing.
C11_ErrorListAccounting ==
    (res.called /\ text.syntax_ok) =>
        LET errors == Final.result.errors
            des == SelectSeq(errors, LAMBDA e : e.type = "Deserialization")
            cfg == SelectSeq(errors, LAMBDA e : e.type = "Config")
        IN  /\ \A i \in DOMAIN errors : errors[i].type \in {"Deserialization", "Config"}
            /\ {des[i].origin : i \in DOMAIN des} = FailedComponents
            /\ Len(des) = Cardinality(FailedComponents)
            /\ cfg = Reported
            /\ errors = des \o cfg
            /\ Len(SelectSeq(Final.lookups, LAMBDA l : l[1] = "Filter")) =
                  FiltersOfBuilt(DOMAIN RawAppenders)
            /\ (errors = <<>>) <=>
                  /\ \A name \in DOMAIN RawAppenders :
                        /\ AppenderBuilds(name)
                        /\ FailingFilters(name) = {}
                  /\ Reported = <<>>

\* a call that met an appender that fails to build and lists a filter of an
\* unregistered kind, built another appender whose filter fails, and got an
\* error from build_lossy
C11_Witness ==
    /\ Returned
    /\ DOMAIN RawAppenders = {"a", "b"}
    /\ ~AppenderBuilds("a")
    /\ Len(RawAppenders["a"].filters) = 1
    /\ InsertsFor("Filter", RawAppenders["a"].filters[1].kind) = {}
    /\ AppenderBuilds("b")
    /\ FailingFilters("b") = {1}
    /\ Reported # <<>>
    /\ Len(Final.result.errors) = 3

====
